---- MODULE Spec2Model ----
(***************************************************************************)
(* A model of sbt (src/src/sbt): the variable resolver                     *)
(* (Config.variables_iter), the job naming (_render_kv, _override_name),   *)
(* the script assembly (render) and the option renderer (render_options).  *)
(*                                                                         *)
(* Representation of text.                                                 *)
(*   - A Python str that takes part in a job name (variable names, the     *)
(*     str() of variable values, the config file's stem) is a sequence of  *)
(*     one-character strings, so that the per-character regular            *)
(*     expression of _render_kv can be modelled.                           *)
(*   - Template source text (what jinja2 parses) is a sequence of items:   *)
(*     Lit(s) is the literal text s, Var(n) is the placeholder {{ n }}.    *)
(*   - Rendered text (what jinja2 returns) is a sequence of strings.       *)
(*   - A Python dict is a sequence of records [k, v] with distinct k, in   *)
(*     insertion order.                                                    *)
(***************************************************************************)
EXTENDS Integers, Sequences, FiniteSets, TLC

VARIABLES
    default_values,   \* Config.default_values
    matrix,           \* Config.matrix
    logdir,           \* Config.logdir
    slurm_options,    \* Config.slurm_options
    template,         \* Config.template (inline template text, or None)
    template_path,    \* Config.template_path (a path, or None)
    cli_options,      \* render's argument cli_options (the overrides)
    no_timestamp,     \* render's argument no_timestamp
    pc,               \* position of the render generator
    script,           \* render's local `script` (header + template)
    indices,          \* position of itertools.product inside variables_iter
    exhausted,        \* whether variables_iter has nothing more to yield
    yielded,          \* history: the dicts variables_iter has yielded
    output,           \* history: what render has yielded so far
    rendered_options, \* result of a direct call of render_options
    obj,              \* the dataclass instance whose __post_init__ runs
    previous,         \* history: the earlier calls of render, as they ended
    yes,              \* cli's flag -y/--yes
    overwrite,        \* cli's flag --overwrite
    files,            \* the files of the log directory: name -> content
    trace,            \* history: what cli has rendered, asked, saved, submitted
    exit_code         \* how the process ended: None while it has not

vars == <<default_values, matrix, logdir, slurm_options, template,
          template_path, cli_options, no_timestamp, pc, script, indices,
          exhausted, yielded, output, rendered_options, obj, previous,
          yes, overwrite, files, trace, exit_code>>

cli_vars == <<yes, overwrite, files, trace, exit_code>>

config_vars == <<default_values, matrix, logdir, slurm_options, template, template_path,
                 cli_options, no_timestamp>>

(***************************************************************************)
(* Generic helpers on sequences.                                           *)
(***************************************************************************)
RECURSIVE Flatten(_)
Flatten(ss) == IF ss = <<>> THEN <<>> ELSE Head(ss) \o Flatten(Tail(ss))

\* sep.join(parts)
RECURSIVE Join(_, _)
Join(parts, sep) ==
    IF parts = <<>> THEN <<>>
    ELSE IF Len(parts) = 1 THEN parts[1]
    ELSE parts[1] \o sep \o Join(Tail(parts), sep)

Range(s) == {s[i] : i \in DOMAIN s}

(***************************************************************************)
(* Python values held by variables (typing.Any read from TOML or the CLI). *)
(***************************************************************************)
PyStr(chars) == [t |-> "str", v |-> chars]
PyInt(n) == [t |-> "int", v |-> n]

DigitChars == <<"0", "1", "2", "3", "4", "5", "6", "7", "8", "9">>

RECURSIVE NatToStr(_)
NatToStr(n) ==
    IF n < 10 THEN <<DigitChars[n + 1]>>
    ELSE NatToStr(n \div 10) \o <<DigitChars[(n % 10) + 1]>>

\* str(n) of a Python int
IntToStr(n) == IF n < 0 THEN <<"-">> \o NatToStr(0 - n) ELSE NatToStr(n)

\* str(v), as used by the f-string of _render_kv and by jinja2's output
ToStr(v) == IF v.t = "int" THEN IntToStr(v.v) ELSE v.v

(***************************************************************************)
(* Python dicts (insertion-ordered).                                       *)
(***************************************************************************)
DictKeys(d) == {d[i].k : i \in DOMAIN d}
HasKey(d, k) == \E i \in DOMAIN d : d[i].k = k
DictGet(d, k) == d[CHOOSE i \in DOMAIN d : d[i].k = k].v

\* d[k] = v
DictSet(d, k, v) ==
    IF HasKey(d, k)
    THEN [i \in DOMAIN d |-> IF d[i].k = k THEN [k |-> k, v |-> v] ELSE d[i]]
    ELSE Append(d, [k |-> k, v |-> v])

\* {**a, **b}, and a.update(b)
RECURSIVE DictMerge(_, _)
DictMerge(a, b) ==
    IF b = <<>> THEN a
    ELSE DictMerge(DictSet(a, Head(b).k, Head(b).v), Tail(b))

IsDict(d) == \A i, j \in DOMAIN d : d[i].k = d[j].k => i = j

(***************************************************************************)
(* Variable names.                                                         *)
(***************************************************************************)
SBT_JOB_NAME == <<"S", "B", "T", "_", "J", "O", "B", "_", "N", "A", "M", "E">>
SBT_LOGFILE_NAME ==
    <<"S", "B", "T", "_", "L", "O", "G", "F", "I", "L", "E", "_", "N", "A", "M", "E">>
KFoo == <<"f", "o", "o">>
KBar == <<"b", "a", "r">>
KVar == <<"v", "a", "r">>
KDot == <<"k", ".", "x">>
KBaz == <<"b", "a", "z">>

(***************************************************************************)
(* Config.variables_iter (config.py:58-67).                                *)
(***************************************************************************)

\* Variant that keeps the keys the overrides name.
IteratedUnfiltered(m, overrides) == m


\* iterated = {k: v for k, v in self.matrix.items() if k not in overrides}
Iterated(m, overrides) ==
    SelectSeq(m, LAMBDA e : ~HasKey(overrides, e.k))

\* Variant that takes a pool of one candidate for an empty one.
ProductStartNeedingTwo(iterated) ==
    [indices |-> [j \in 1..Len(iterated) |-> 1],
     exhausted |-> \E j \in 1..Len(iterated) : Len(iterated[j].v) < 2]

\* The first tuple of itertools.product(*iterated.values()): none when a
\* pool is empty.  With no pools at all the code takes its first branch and
\* yields once, which is also what product() of nothing does.
ProductStart(iterated) ==
    [indices |-> [j \in 1..Len(iterated) |-> 1],
     exhausted |-> \E j \in 1..Len(iterated) : Len(iterated[j].v) = 0]


\* Variant in which the leftmost pool advances first.
ProductAdvanceLeftFirst(iterated, idx) ==
    LET movable == {j \in 1..Len(iterated) : idx[j] < Len(iterated[j].v)}
    IN  IF movable = {}
        THEN [indices |-> idx, exhausted |-> TRUE]
        ELSE LET p == CHOOSE j \in movable : \A q \in movable : j <= q
             IN  [indices |-> [j \in 1..Len(iterated) |->
                                  IF j > p THEN idx[j]
                                  ELSE IF j = p THEN idx[j] + 1 ELSE 1],
                  exhausted |-> FALSE]

\* The tuple after idx: the rightmost pool advances first, with carry.
ProductAdvance(iterated, idx) ==
    LET movable == {j \in 1..Len(iterated) : idx[j] < Len(iterated[j].v)}
    IN  IF movable = {}
        THEN [indices |-> idx, exhausted |-> TRUE]
        ELSE LET p == CHOOSE j \in movable : \A q \in movable : q <= j
             IN  [indices |-> [j \in 1..Len(iterated) |->
                                  IF j < p THEN idx[j]
                                  ELSE IF j = p THEN idx[j] + 1 ELSE 1],
                  exhausted |-> FALSE]

\* for key, value in zip(iterated, matrix_vars): variables[key] = value
RECURSIVE AssignMatrixVars(_, _, _, _)
AssignMatrixVars(variables, iterated, idx, j) ==
    IF j > Len(iterated) THEN variables
    ELSE AssignMatrixVars(
             DictSet(variables, iterated[j].k, iterated[j].v[idx[j]]),
             iterated, idx, j + 1)


\* Variant in which the defaults are merged over the overrides.
VariablesAtDefaultsWin(defaults, m, overrides, idx) ==
    LET iterated == Iterated(m, overrides)
    IN  IF Len(iterated) = 0
        THEN DictMerge(overrides, defaults)
        ELSE AssignMatrixVars(DictMerge(overrides, defaults), iterated, idx, 1)

\* The dict variables_iter yields at product position idx.
VariablesAt(defaults, m, overrides, idx) ==
    LET iterated == Iterated(m, overrides)
    IN  IF Len(iterated) = 0
        THEN DictMerge(defaults, overrides)
        ELSE AssignMatrixVars(DictMerge(defaults, overrides), iterated, idx, 1)

(***************************************************************************)
(* Job naming (config.py:38-39, 70-78).                                    *)
(***************************************************************************)
\* The characters of the class [A-Za-z0-9|_-]
AllowedChars ==
    {"a", "b", "c", "d", "e", "f", "g", "h", "i", "j", "k", "l", "m", "n",
     "o", "p", "q", "r", "s", "t", "u", "v", "w", "x", "y", "z",
     "A", "B", "C", "D", "E", "F", "G", "H", "I", "J", "K", "L", "M", "N",
     "O", "P", "Q", "R", "S", "T", "U", "V", "W", "X", "Y", "Z",
     "0", "1", "2", "3", "4", "5", "6", "7", "8", "9", "|", "_", "-"}


\* Variant that removes the characters outside the class.
SanitizeByRemoval(text) == SelectSeq(text, LAMBDA c : c \in AllowedChars)

\* re.sub(r"[^A-Za-z0-9|_-]", "-", text), one character at a time
Sanitize(text) ==
    [i \in 1..Len(text) |-> IF text[i] \in AllowedChars THEN text[i] ELSE "-"]

\* f"{k}-{v}"
KvText(k, v) == k \o <<"-">> \o ToStr(v)

_render_kv(k, v) == Sanitize(KvText(k, v))


\* Variant that joins the pieces with nothing between them.
OverrideNameUnseparated(overrides) ==
    IF Len(overrides) = 0
    THEN <<"d", "e", "f", "a", "u", "l", "t">>
    ELSE Join([i \in 1..Len(overrides) |->
                  _render_kv(overrides[i].k, overrides[i].v)], <<>>)

_override_name(overrides) ==
    IF Len(overrides) = 0
    THEN <<"d", "e", "f", "a", "u", "l", "t">>
    ELSE Join([i \in 1..Len(overrides) |->
                  _render_kv(overrides[i].k, overrides[i].v)], <<"-">>)


\* Variant that ignores the matrix.
IsOverriddenIgnoringMatrix(m, defaults, key) == ~HasKey(defaults, key)

is_overriden_key(m, defaults, key) ==
    HasKey(m, key) \/ ~HasKey(defaults, key)

\* overrides = {k: v for k, v in variables.items() if config.is_overriden_key(k)}
OverriddenItems(m, defaults, variables) ==
    SelectSeq(variables, LAMBDA e : is_overriden_key(m, defaults, e.k))

\* job_name = self_path.stem + "-" + _override_name(overrides=overrides)
JobName(stem, overrides) == stem \o <<"-">> \o _override_name(overrides)

(***************************************************************************)
(* Paths (pathlib.Path): absolute(), joinpath(), as_posix().  A path is    *)
(* its components, each the text of one component.                         *)
(***************************************************************************)
Cwd == <<<<"work">>>>

PathAbsolute(p) ==
    IF p.absolute THEN p ELSE [absolute |-> TRUE, parts |-> Cwd \o p.parts]

\* joinpath with one relative component
PathJoin(p, name) == [absolute |-> p.absolute, parts |-> p.parts \o <<name>>]

PathPosix(p) ==
    (IF p.absolute THEN <<"/">> ELSE <<>>) \o Join(p.parts, <<"/">>)

(***************************************************************************)
(* Template text.                                                          *)
(***************************************************************************)
Lit(s) == [lit |-> s]
Var(n) == [var |-> n]
NL == Lit("\n")
IsVar(item) == "var" \in DOMAIN item

\* A Python str (already split into strings) as literal template text.
Lits(strs) == [i \in 1..Len(strs) |-> Lit(strs[i])]

(***************************************************************************)
(* Option values (options.py:23-235).                                      *)
(***************************************************************************)
ONone == [t |-> "None"]
OStr(items) == [t |-> "str", v |-> items]
OInt(n) == [t |-> "int", v |-> n]
OBool(b) == [t |-> "bool", v |-> b]
OList(elems) == [t |-> "list", v |-> elems]
OTuple(elems) == [t |-> "tuple", v |-> elems]
OPath(items) == [t |-> "Path", v |-> items]
OMem(size, unit) == [t |-> "Mem", size |-> size, unit |-> unit]
ODuration(days, hours, minutes) ==
    [t |-> "Duration", days |-> days, hours |-> hours, minutes |-> minutes]
OArray(values, range_, max_parallel) ==
    [t |-> "Array", values |-> values, range_ |-> range_,
     max_parallel |-> max_parallel]
OCpuFreq(p1, p2, p3) == [t |-> "CpuFreq", p1 |-> p1, p2 |-> p2, p3 |-> p3]
ODistribution(first, second, third, pack) ==
    [t |-> "Distribution", first |-> first, second |-> second, third |-> third,
     pack |-> pack]

\* len(value) == 0, for the values that have a length
IsSized(value) == value.t \in {"str", "list", "tuple"}

\* render_helper.is_empty: `value in [None, False]` compares with ==, and
\* in Python 0 == False.
is_empty(value) ==
    \/ value.t = "None"
    \/ (value.t = "bool" /\ value.v = FALSE)
    \/ (value.t = "int" /\ value.v = 0)
    \/ (IsSized(value) /\ Len(value.v) = 0)

\* str(value) of a scalar, as template text
OScalarStr(value) ==
    CASE value.t = "int" -> Lits(IntToStr(value.v))
      [] value.t = "bool" -> <<Lit(IF value.v THEN "True" ELSE "False")>>
      [] value.t = "None" -> <<Lit("None")>>
      [] OTHER -> value.v

\* render_helper.render_optional with an empty suffix
render_optional(value, prefix) ==
    IF is_empty(value) THEN <<>> ELSE <<Lit(prefix)>> \o OScalarStr(value)

\* Array.as_sbatch_str
ArraySbatchStr(array) ==
    LET rlen == Len(array.range_)
        ret == IF rlen = 0
               THEN Join([i \in 1..Len(array.values) |->
                             Lits(IntToStr(array.values[i]))], <<Lit(",")>>)
               ELSE Lits(IntToStr(array.range_[1])) \o <<Lit("-")>>
                    \o Lits(IntToStr(array.range_[2]))
                    \o (IF rlen = 3
                        THEN <<Lit(":")>> \o Lits(IntToStr(array.range_[3]))
                        ELSE <<>>)
    IN  ret \o (IF array.max_parallel # ONone
                THEN <<Lit("%")>> \o OScalarStr(array.max_parallel)
                ELSE <<>>)

\* CpuFreq.as_sbatch_str
CpuFreqSbatchStr(cpu_freq) ==
    OScalarStr(cpu_freq.p1) \o render_optional(cpu_freq.p2, "-")
    \o render_optional(cpu_freq.p3, ":")

\* Distribution.as_sbatch_str
DistributionSbatchStr(distribution) ==
    OScalarStr(distribution.first) \o render_optional(distribution.second, ":")
    \o render_optional(distribution.third, ":")
    \o (IF distribution.pack THEN <<Lit(",{Pack}")>> ELSE <<>>)

\* Variant that always writes the days.
DurationSbatchStrWithDays(duration) ==
    Lits(IntToStr(duration.days)) \o <<Lit("-")>>
    \o Lits(IntToStr(duration.hours)) \o <<Lit(":")>>
    \o Lits(IntToStr(duration.minutes))

\* Duration.as_sbatch_str
DurationSbatchStr(duration) ==
    IF duration.days = 0
    THEN Lits(IntToStr(duration.hours)) \o <<Lit(":")>>
         \o Lits(IntToStr(duration.minutes))
    ELSE Lits(IntToStr(duration.days)) \o <<Lit("-")>>
         \o Lits(IntToStr(duration.hours)) \o <<Lit(":")>>
         \o Lits(IntToStr(duration.minutes))

\* hasattr(value, "as_sbatch_str")
HasSbatchStr(value) ==
    value.t \in {"Mem", "Duration", "Array", "CpuFreq", "Distribution"}

as_sbatch_str(value) ==
    CASE value.t = "Mem" -> Lits(IntToStr(value.size)) \o <<Lit(value.unit)>>
      [] value.t = "Array" -> ArraySbatchStr(value)
      [] value.t = "CpuFreq" -> CpuFreqSbatchStr(value)
      [] value.t = "Distribution" -> DistributionSbatchStr(value)
      [] value.t = "Duration" -> DurationSbatchStr(value)

(***************************************************************************)
(* __post_init__ of the dataclasses that validate their fields: whether it *)
(* raises ValueError.  The fields are already assigned when it runs.       *)
(***************************************************************************)
\* Variant that accepts a range of any length but 1.
ArrayRaisesShortRangeOnly(array) ==
    LET vlen == Len(array.values)
        rlen == Len(array.range_)
    IN  IF vlen = 0 /\ rlen = 0 THEN TRUE
        ELSE IF vlen > 0 /\ rlen > 0 THEN TRUE
        ELSE IF rlen = 1 THEN TRUE
        ELSE FALSE

\* Array.__post_init__
ArrayRaises(array) ==
    LET vlen == Len(array.values)
        rlen == Len(array.range_)
    IN  IF vlen = 0 /\ rlen = 0 THEN TRUE
        ELSE IF vlen > 0 /\ rlen > 0 THEN TRUE
        ELSE IF rlen = 1 \/ rlen > 3 THEN TRUE
        ELSE FALSE

\* Variant that rejects every p3.
CpuFreqRaisesOnP3(cpu_freq) == cpu_freq.p3 # ONone

\* CpuFreq.__post_init__
CpuFreqRaises(cpu_freq) == cpu_freq.p2 = ONone /\ cpu_freq.p3 # ONone

\* Distribution.__post_init__
DistributionRaises(distribution) ==
    distribution.second = ONone /\ distribution.third # ONone

\* Variant that looks at hours and minutes only.
DurationRaisesWithoutClock(duration) ==
    duration.hours = 0 /\ duration.minutes = 0

\* Duration.__post_init__
DurationRaises(duration) ==
    duration.days = 0 /\ duration.hours = 0 /\ duration.minutes = 0

\* Variant that only requires one of the two.
ConfigRaisesWithoutSource(tmpl, path) == tmpl = ONone /\ path = ONone

\* Config.__post_init__, on the fields template and template_path
ConfigRaises(tmpl, path) ==
    IF tmpl = ONone /\ path = ONone THEN TRUE
    ELSE IF tmpl # ONone /\ path # ONone THEN TRUE
    ELSE FALSE

(***************************************************************************)
(* Options (options.py:238-391): the fields in declaration order.  A field *)
(* name is held as its pieces between underscores.                         *)
(***************************************************************************)
Fields == <<
    [name |-> <<"account">>, default |-> OStr(<<>>)],
    [name |-> <<"acctg", "freq">>, default |-> OList(<<>>)],
    [name |-> <<"array">>, default |-> ONone],
    [name |-> <<"batch">>, default |-> OStr(<<>>)],
    [name |-> <<"bb">>, default |-> OStr(<<>>)],
    [name |-> <<"bbf">>, default |-> ONone],
    [name |-> <<"begin">>, default |-> ONone],
    [name |-> <<"chdir">>, default |-> ONone],
    [name |-> <<"cluster", "constraint">>, default |-> ONone],
    [name |-> <<"clusters">>, default |-> OList(<<>>)],
    [name |-> <<"comment">>, default |-> OStr(<<>>)],
    [name |-> <<"constraint">>, default |-> OStr(<<>>)],
    [name |-> <<"container">>, default |-> ONone],
    [name |-> <<"contiguous">>, default |-> OBool(FALSE)],
    [name |-> <<"core", "spec">>, default |-> ONone],
    [name |-> <<"cores", "per", "socket">>, default |-> ONone],
    [name |-> <<"cpu", "freq">>, default |-> ONone],
    [name |-> <<"cpus", "per", "gpu">>, default |-> ONone],
    [name |-> <<"cpus", "per", "task">>, default |-> ONone],
    [name |-> <<"deadline">>, default |-> ONone],
    [name |-> <<"delay", "boot">>, default |-> ONone],
    [name |-> <<"dependency">>, default |-> OStr(<<>>)],
    [name |-> <<"distribution">>, default |-> ONone],
    [name |-> <<"error">>, default |-> OStr(<<Var(SBT_LOGFILE_NAME), Lit(".err")>>)],
    [name |-> <<"exclusive">>, default |-> ONone],
    [name |-> <<"export">>, default |-> ONone],
    [name |-> <<"export", "file">>, default |-> ONone],
    [name |-> <<"extra", "node", "info">>, default |-> ONone],
    [name |-> <<"get", "user", "env">>, default |-> OStr(<<>>)],
    [name |-> <<"gid">>, default |-> OStr(<<>>)],
    [name |-> <<"gpu", "bind">>, default |-> ONone],
    [name |-> <<"gpu", "freq">>, default |-> ONone],
    [name |-> <<"gpus">>, default |-> OList(<<>>)],
    [name |-> <<"gpus", "per", "node">>, default |-> OList(<<>>)],
    [name |-> <<"gpus", "per", "task">>, default |-> OList(<<>>)],
    [name |-> <<"gres">>, default |-> OList(<<>>)],
    [name |-> <<"gres", "flags">>, default |-> ONone],
    [name |-> <<"hint">>, default |-> ONone],
    [name |-> <<"hold">>, default |-> OBool(FALSE)],
    [name |-> <<"input", "">>, default |-> ONone],
    [name |-> <<"job", "name">>, default |-> OStr(<<Var(SBT_JOB_NAME)>>)],
    [name |-> <<"kill", "on", "invalid", "dep">>, default |-> ONone],
    [name |-> <<"licenses">>, default |-> OList(<<>>)],
    [name |-> <<"mail", "type">>, default |-> OList(<<>>)],
    [name |-> <<"mail", "user">>, default |-> OStr(<<>>)],
    [name |-> <<"mcs", "label">>, default |-> OStr(<<>>)],
    [name |-> <<"mem">>, default |-> ONone],
    [name |-> <<"mem", "bind">>, default |-> ONone],
    [name |-> <<"mem", "per", "cpu">>, default |-> ONone],
    [name |-> <<"mincpus">>, default |-> ONone],
    [name |-> <<"network">>, default |-> ONone],
    [name |-> <<"nice">>, default |-> ONone],
    [name |-> <<"no", "kill">>, default |-> OBool(FALSE)],
    [name |-> <<"no", "requeue">>, default |-> OBool(FALSE)],
    [name |-> <<"node", "file">>, default |-> ONone],
    [name |-> <<"nodelist">>, default |-> OList(<<>>)],
    [name |-> <<"nodes">>, default |-> ONone],
    [name |-> <<"ntasks">>, default |-> ONone],
    [name |-> <<"ntasks", "per", "core">>, default |-> ONone],
    [name |-> <<"ntasks", "per", "gpu">>, default |-> ONone],
    [name |-> <<"ntasks", "per", "node">>, default |-> ONone],
    [name |-> <<"ntasks", "per", "socket">>, default |-> ONone],
    [name |-> <<"output">>, default |-> OStr(<<Var(SBT_LOGFILE_NAME), Lit(".out")>>)],
    [name |-> <<"open", "mode">>, default |-> ONone],
    [name |-> <<"overcommit">>, default |-> OBool(FALSE)],
    [name |-> <<"oversubscribe">>, default |-> OBool(FALSE)],
    [name |-> <<"parsable">>, default |-> OBool(FALSE)],
    [name |-> <<"partition">>, default |-> OStr(<<>>)],
    [name |-> <<"power">>, default |-> OList(<<>>)],
    [name |-> <<"prefer">>, default |-> OList(<<>>)],
    [name |-> <<"priority">>, default |-> ONone],
    [name |-> <<"profile">>, default |-> OList(<<>>)],
    [name |-> <<"propagate">>, default |-> OList(<<>>)],
    [name |-> <<"qos">>, default |-> ONone],
    [name |-> <<"quiet">>, default |-> OBool(FALSE)],
    [name |-> <<"requeue">>, default |-> OBool(FALSE)],
    [name |-> <<"reservation">>, default |-> OList(<<>>)],
    [name |-> <<"signal">>, default |-> ONone],
    [name |-> <<"sockets", "per", "node">>, default |-> ONone],
    [name |-> <<"spread", "job">>, default |-> OBool(FALSE)],
    [name |-> <<"switches">>, default |-> ONone],
    [name |-> <<"thread", "spec">>, default |-> ONone],
    [name |-> <<"threads", "per", "core">>, default |-> ONone],
    [name |-> <<"time">>, default |-> ONone],
    [name |-> <<"time", "min">>, default |-> ONone],
    [name |-> <<"tmp">>, default |-> ONone],
    [name |-> <<"uid">>, default |-> OStr(<<>>)],
    [name |-> <<"use", "min", "nodes">>, default |-> OBool(FALSE)],
    [name |-> <<"verbose">>, default |-> OBool(FALSE)],
    [name |-> <<"wait", "all", "nodes">>, default |-> OBool(FALSE)],
    [name |-> <<"wckey">>, default |-> OStr(<<>>)]
>>

\* getattr(options, key): the constructor's argument, or the default
OptionValue(options, i) ==
    IF HasKey(options, Fields[i].name)
    THEN DictGet(options, Fields[i].name)
    ELSE Fields[i].default

(***************************************************************************)
(* The option renderer (options.py:394-466).                               *)
(***************************************************************************)
\* _render_gpus.to_s
GpusToS(value) ==
    IF value.t = "tuple"
    THEN OScalarStr(value.v[1]) \o <<Lit(":")>> \o OScalarStr(value.v[2])
    ELSE OScalarStr(value)

_render_gpus(gpus) ==
    <<Lit("=")>> \o Join([i \in 1..Len(gpus.v) |-> GpusToS(gpus.v[i])], <<Lit(",")>>)

\* _render_gres.to_s
GresToS(value) ==
    Join([i \in 1..Len(value.v) |-> OScalarStr(value.v[i])], <<Lit(":")>>)

_render_gres(gres) ==
    <<Lit("=")>> \o Join([i \in 1..Len(gres.v) |-> GresToS(gres.v[i])], <<Lit(",")>>)

_render_no_kill(no_kill) ==
    IF no_kill = OStr(<<Lit("off")>>) THEN <<Lit("="), Lit("off")>> ELSE <<>>

_render_nodes(nodes) ==
    IF nodes.t = "tuple"
    THEN <<Lit("=")>> \o OScalarStr(nodes.v[1]) \o <<Lit("-")>>
         \o OScalarStr(nodes.v[2])
    ELSE <<Lit("=")>> \o OScalarStr(nodes)

\* lambda value: ":".join([str(elem) for elem in value])
RenderExtraNodeInfo(value) ==
    Join([i \in 1..Len(value.v) |-> OScalarStr(value.v[i])], <<Lit(":")>>)

\* lambda value: str(int(value))
RenderWaitAllNodes(value) == <<Lit(IF value.v THEN "1" ELSE "0")>>

CustomRenderKeys ==
    {<<"extra", "node", "info">>, <<"gpus">>, <<"gpus", "per", "node">>,
     <<"gpus", "per", "task">>, <<"gres">>, <<"no", "kill">>, <<"nodes">>,
     <<"wait", "all", "nodes">>}

_CUSTOM_RENDER_FUNCTIONS(key, value) ==
    CASE key = <<"extra", "node", "info">> -> RenderExtraNodeInfo(value)
      [] key \in {<<"gpus">>, <<"gpus", "per", "node">>, <<"gpus", "per", "task">>} ->
            _render_gpus(value)
      [] key = <<"gres">> -> _render_gres(value)
      [] key = <<"no", "kill">> -> _render_no_kill(value)
      [] key = <<"nodes">> -> _render_nodes(value)
      [] key = <<"wait", "all", "nodes">> -> RenderWaitAllNodes(value)

\* "--" + key.replace("_", "-")
_render_key(key) ==
    <<Lit("--")>> \o Join([i \in 1..Len(key) |-> <<Lit(key[i])>>], <<Lit("-")>>)

\* v.as_sbatch_str() if hasattr(v, "as_sbatch_str") else str(v)
ListElemStr(v) == IF HasSbatchStr(v) THEN as_sbatch_str(v) ELSE OScalarStr(v)

_render_value(key, value) ==
    IF key \in CustomRenderKeys THEN _CUSTOM_RENDER_FUNCTIONS(key, value)
    ELSE IF HasSbatchStr(value) THEN <<Lit("=")>> \o as_sbatch_str(value)
    ELSE IF value.t \in {"list", "tuple"}
         THEN <<Lit("=")>>
              \o Join([i \in 1..Len(value.v) |-> ListElemStr(value.v[i])], <<Lit(",")>>)
    ELSE IF value.t = "bool" THEN <<>>
    ELSE <<Lit("=")>> \o OScalarStr(value)

\* The directive line of field i
DirectiveLine(options, i) ==
    <<Lit("#SBATCH ")>> \o _render_key(Fields[i].name)
    \o _render_value(Fields[i].name, OptionValue(options, i))


\* Variant that collects the lines in the reverse of the declaration order.
RECURSIVE DirectiveLinesReversed(_, _)
DirectiveLinesReversed(options, i) ==
    IF i > Len(Fields) THEN <<>>
    ELSE DirectiveLinesReversed(options, i + 1)
         \o (IF is_empty(OptionValue(options, i)) THEN <<>>
             ELSE <<DirectiveLine(options, i)>>)

\* res: the lines of the fields that are not empty, in the order of fields()
RECURSIVE DirectiveLines(_, _)
DirectiveLines(options, i) ==
    IF i > Len(Fields) THEN <<>>
    ELSE (IF is_empty(OptionValue(options, i)) THEN <<>>
          ELSE <<DirectiveLine(options, i)>>)
         \o DirectiveLines(options, i + 1)

render_options(options) ==
    LET res == DirectiveLines(options, 1)
    IN  IF Len(res) # 0
        THEN <<NL>> \o Join(res, <<NL>>) \o <<NL>>
        ELSE <<>>

(***************************************************************************)
(* jinja2: env.get_template("script").render(variables) (config.py:150).   *)
(* One pass over the template source: a placeholder is replaced by the     *)
(* str() of its variable (by nothing when the variable is undefined), and  *)
(* what was substituted is not parsed again.  jinja2 drops one trailing    *)
(* newline of the template source (keep_trailing_newline is off).          *)
(***************************************************************************)
StripTrailingNewline(source) ==
    IF Len(source) > 0 /\ source[Len(source)] = NL
    THEN SubSeq(source, 1, Len(source) - 1)
    ELSE source

Substitute(item, variables) ==
    IF IsVar(item)
    THEN IF HasKey(variables, item.var)
         THEN ToStr(DictGet(variables, item.var))
         ELSE <<>>
    ELSE <<item.lit>>

JinjaRender(source, variables) ==
    LET src == StripTrailingNewline(source)
    IN  Flatten([i \in 1..Len(src) |-> Substitute(src[i], variables)])

(***************************************************************************)
(* The inputs the model explores.                                          *)
(***************************************************************************)
\* Longest candidate list of a matrix key
MaxCandidates == 2

\* Candidate values of a matrix key: for foo two strs that differ only in a
\* character the job name replaces, for bar an int and a str
MatrixVals(key) ==
    IF key = KFoo THEN {PyStr(<<"1", ".", "0">>), PyStr(<<"1", "-", "0">>)}
    ELSE IF key = KBar THEN {PyInt(10), PyStr(<<"x">>)}
    ELSE {PyStr(<<"s">>)}

CandidateLists(key) == UNION {[1..n -> MatrixVals(key)] : n \in 0..MaxCandidates}

MatrixKeyOrders == {<<>>, <<KFoo>>, <<KFoo, KBar>>, <<SBT_JOB_NAME>>}

RECURSIVE MatricesOver(_)
MatricesOver(ks) ==
    IF ks = <<>> THEN {<<>>}
    ELSE {<<[k |-> Head(ks), v |-> c]>> \o rest :
             c \in CandidateLists(Head(ks)), rest \in MatricesOver(Tail(ks))}

MatrixInputs == UNION {MatricesOver(ks) : ks \in MatrixKeyOrders}

DefaultValuesInputs ==
    {<<>>,
     <<[k |-> KVar, v |-> PyInt(1)]>>,
     <<[k |-> KFoo, v |-> PyStr(<<"f", "o">>)], [k |-> KVar, v |-> PyInt(1)],
       [k |-> KBaz, v |-> PyInt(2)]>>,
     <<[k |-> SBT_JOB_NAME, v |-> PyStr(<<"m", "i", "n", "e">>)]>>}

CliOptionsInputs ==
    {<<>>,
     <<[k |-> KVar, v |-> PyStr(<<"Y", "a", "y">>)]>>,
     <<[k |-> KDot, v |-> PyStr(<<"1", "0">>)], [k |-> KFoo, v |-> PyStr(<<"p", " ", "q">>)]>>,
     <<[k |-> SBT_LOGFILE_NAME, v |-> PyStr(<<"l">>)], [k |-> SBT_JOB_NAME, v |-> PyStr(<<"n">>)]>>}

\* Options() and the options of tests/test_render.py:51-61
TestOptions ==
    <<[k |-> <<"cpus", "per", "task">>, v |-> OInt(1)],
      [k |-> <<"gres">>, v |-> OList(<<OTuple(<<OStr(<<Lit("gpu")>>), OInt(1)>>)>>)],
      [k |-> <<"mail", "type">>, v |-> OList(<<OStr(<<Lit("END")>>), OStr(<<Lit("FAIL")>>)>>)],
      [k |-> <<"mail", "user">>, v |-> OStr(<<Lit("yuji.kanagawa@oist.jp")>>)],
      [k |-> <<"mem", "per", "cpu">>, v |-> OMem(16, "G")],
      [k |-> <<"nodes">>, v |-> OInt(1)],
      [k |-> <<"ntasks">>, v |-> OInt(1)],
      [k |-> <<"ntasks", "per", "node">>, v |-> OInt(1)],
      [k |-> <<"partition">>, v |-> OStr(<<Lit("gpu")>>)],
      [k |-> <<"time">>, v |-> ODuration(0, 12, 0)]>>

\* logdir, slurm_options, template and no_timestamp of the calls of render
\* that are explored
ConfigShapes ==
    {[logdir |-> [absolute |-> TRUE, parts |-> <<<<"tmp">>, <<"log">>>>],
      slurm_options |-> TestOptions,
      template |-> OStr(<<Lit("echo "), Var(KVar)>>),
      no_timestamp |-> TRUE],
     [logdir |-> [absolute |-> FALSE, parts |-> <<>>],
      slurm_options |-> <<>>,
      template |-> OStr(<<Lit("echo "), Var(KFoo), Lit(" && echo "), Var(KBar), NL>>),
      no_timestamp |-> TRUE],
     [logdir |-> [absolute |-> FALSE, parts |-> <<>>],
      slurm_options |-> <<>>,
      template |-> OStr(<<Lit("echo "), Var(KFoo), Lit(" && echo "), Var(KBar), NL>>),
      no_timestamp |-> FALSE]}

\* Values of datetime.now().isoformat()
Timestamps == {"2022-08-01T10:00:00.000001", "2022-08-01T10:00:00.000002"}

\* Options instances for direct calls of render_options: each sampled field
\* is left at its default or given one of its sample values.
OptionSamples ==
    <<[name |-> <<"account">>, vals |-> {OStr(<<Lit("acc")>>)}],
      [name |-> <<"contiguous">>, vals |-> {OBool(TRUE), OBool(FALSE)}],
      [name |-> <<"cpus", "per", "task">>, vals |-> {OInt(1)}],
      [name |-> <<"error">>, vals |-> {OStr(<<>>), OStr(<<Lit("e.log")>>)}],
      [name |-> <<"gres">>,
       vals |-> {OList(<<OTuple(<<OStr(<<Lit("gpu")>>), OInt(1)>>)>>), OList(<<>>)}],
      [name |-> <<"mem", "per", "cpu">>, vals |-> {OMem(16, "G")}],
      [name |-> <<"nice">>, vals |-> {OInt(0), OInt(5)}],
      [name |-> <<"nodes">>, vals |-> {OInt(1), OTuple(<<OInt(1), OInt(2)>>)}],
      [name |-> <<"time">>, vals |-> {ODuration(1, 0, 0), ODuration(0, 12, 30)}],
      [name |-> <<"wait", "all", "nodes">>, vals |-> {OBool(TRUE)}]>>

RECURSIVE OptionsFrom(_)
OptionsFrom(i) ==
    IF i > Len(OptionSamples) THEN {<<>>}
    ELSE LET rest == OptionsFrom(i + 1)
         IN  rest \cup {<<[k |-> OptionSamples[i].name, v |-> val]>> \o r :
                           val \in OptionSamples[i].vals, r \in rest}

OptionsInputs == OptionsFrom(1)

\* Longest values list and longest range list given to Array
MaxArrayLen == 4

\* Elements of the lists given to Array
ArrayInts == {1, 20}

ArrayLists == UNION {[1..n -> ArrayInts] : n \in 0..MaxArrayLen}

\* The dataclass instances whose construction is explored, with their
\* fields as the generated __init__ assigns them
ArrayInputs ==
    {OArray(values, range_, max_parallel) :
        values \in ArrayLists, range_ \in ArrayLists,
        max_parallel \in {ONone, OInt(4)}}

CpuFreqInputs ==
    {OCpuFreq(p1, p2, p3) :
        p1 \in {OInt(1), OStr(<<Lit("low")>>)},
        p2 \in {ONone, OInt(0), OStr(<<Lit("medium")>>)},
        p3 \in {ONone, OStr(<<Lit("Conservative")>>)}}

DistributionInputs ==
    {ODistribution(first, second, third, pack) :
        first \in {OInt(2), OStr(<<Lit("block")>>)},
        second \in {ONone, OStr(<<Lit("cyclic")>>)},
        third \in {ONone, OStr(<<Lit("fcyclic")>>)},
        pack \in BOOLEAN}

DurationInputs ==
    {ODuration(days, hours, minutes) :
        days \in {-1, 0, 1, 3}, hours \in {0, 5, 12}, minutes \in {0, 5, 30}}

CompositeInputs ==
    ArrayInputs \cup CpuFreqInputs \cup DistributionInputs \cup DurationInputs

\* template and template_path given to Config
TemplateInputs == {ONone, OStr(<<Lit("echo "), Var(KVar)>>)}

TemplatePathInputs ==
    {ONone, [absolute |-> FALSE, parts |-> <<<<"template.sh">>>>],
     [absolute |-> TRUE, parts |-> <<<<"tmp">>, <<"template.sh">>>>]}

\* Options(error="", job_name="", output=""): every field is empty
EmptyOptions ==
    <<[k |-> <<"error">>, v |-> OStr(<<>>)],
      [k |-> <<"job", "name">>, v |-> OStr(<<>>)],
      [k |-> <<"output">>, v |-> OStr(<<>>)]>>

\* The configs and overrides with which render is called twice
TwiceShapes ==
    {[logdir |-> [absolute |-> TRUE, parts |-> <<<<"tmp">>, <<"log">>>>],
      slurm_options |-> TestOptions,
      template |-> OStr(<<Lit("echo "), Var(KVar)>>)],
     [logdir |-> [absolute |-> FALSE, parts |-> <<>>],
      slurm_options |-> <<>>,
      template |-> OStr(<<Lit("echo "), Var(KFoo), Lit(" && echo "), Var(KBar), NL>>)],
     [logdir |-> [absolute |-> FALSE, parts |-> <<>>],
      slurm_options |-> EmptyOptions,
      template |-> OStr(<<Lit("echo "), Var(KFoo), NL, Lit("date"), NL>>)]}

TwiceMatrices ==
    MatricesOver(<<>>) \cup MatricesOver(<<KFoo>>)
    \cup {<<[k |-> KFoo, v |-> <<PyStr(<<"1", ".", "0">>), PyStr(<<"1", "-", "0">>)>>],
             [k |-> KBar, v |-> <<PyInt(10)>>]>>}

TwiceDefaultValues ==
    {<<>>, <<[k |-> KFoo, v |-> PyStr(<<"f", "o">>)], [k |-> KVar, v |-> PyInt(1)]>>}

TwiceCliOptions ==
    {<<>>, <<[k |-> KVar, v |-> PyStr(<<"Y", "a", "y">>)]>>}

(***************************************************************************)
(* render (config.py:120-150).                                             *)
(***************************************************************************)
\* Config.shebang's default
Shebang == <<Lit("#!/bin/bash -l")>>

\* self_path.stem
Stem == <<"m", "y", "j", "o", "b">>

\* f"# timestamp: {datetime.now().isoformat()}\n"
TimestampLine(now) == <<Lit("# timestamp: "), Lit(now), NL>>

\* script = config.shebang + options [+ timestamp], then header + template
Header(options_text, with_timestamp, now) ==
    Shebang \o options_text \o (IF with_timestamp THEN TimestampLine(now) ELSE <<>>)

\* The two variables render adds with variables.update(...)
SbtVariables(dir, job_name) ==
    <<[k |-> SBT_JOB_NAME, v |-> PyStr(job_name)],
      [k |-> SBT_LOGFILE_NAME,
       v |-> PyStr(PathPosix(PathJoin(PathAbsolute(dir), job_name)))]>>


\* Variant in which a variable of the same name wins over the two that
\* render adds.
RenderOneKeepingGiven(variables) ==
    LET overrides == OverriddenItems(matrix, default_values, variables)
        job_name == JobName(Stem, overrides)
        updated == DictMerge(SbtVariables(logdir, job_name), variables)
    IN  [script |-> JinjaRender(script, updated),
         job_name |-> job_name,
         overrides |-> overrides,
         variables |-> updated]

\* One pass of render's loop body for the dict `variables`
RenderOne(variables) ==
    LET overrides == OverriddenItems(matrix, default_values, variables)
        job_name == JobName(Stem, overrides)
        updated == DictMerge(variables, SbtVariables(logdir, job_name))
    IN  [script |-> JinjaRender(script, updated),
         job_name |-> job_name,
         overrides |-> overrides,
         variables |-> updated]

\* Contents a template file may have
TemplateFileTexts == {<<Lit("echo file")>>, <<Lit("echo "), Var(KVar), NL>>}

\* Path.read_text(): the text of the file, or an OSError
ReadText(path) ==
    {[ok |-> TRUE, text |-> t] : t \in TemplateFileTexts} \cup {[ok |-> FALSE]}

\* The template text get_environment takes: the file's when template_path
\* is given (joined to the config file's directory when relative), else the
\* inline one
TemplateTexts ==
    IF template_path # ONone
    THEN ReadText(IF template_path.absolute THEN template_path
                  ELSE [absolute |-> TRUE, parts |-> Cwd \o template_path.parts])
    ELSE {[ok |-> TRUE, text |-> template.v]}

\* The script of get_environment(header, basedir): header + template
get_environment(header, read) == header \o read.text

\* First next() on the generator: lines 128-134 up to the start of the loop.
\* An OSError of read_text leaves the generator with the header only.
RenderStart ==
    /\ pc = "start"
    /\ \E now \in Timestamps, read \in TemplateTexts :
          LET header == Header(render_options(slurm_options), ~no_timestamp, now)
              st == ProductStart(Iterated(matrix, cli_options))
          IN  /\ rendered_options' = render_options(slurm_options)
              /\ script' = IF read.ok THEN get_environment(header, read) ELSE header
              /\ indices' = IF read.ok THEN st.indices ELSE indices
              /\ exhausted' = IF read.ok THEN st.exhausted ELSE exhausted
              /\ pc' = IF read.ok THEN "loop" ELSE "os_error"
    /\ UNCHANGED <<config_vars, yielded, output, obj, previous, cli_vars>>

\* Variant in which the dict that is updated and rendered is the caller's
\* overrides mapping itself.
RenderYieldUpdatingOverrides ==
    /\ pc = "loop"
    /\ ~exhausted
    /\ LET variables == VariablesAt(default_values, matrix, cli_options, indices)
           adv == ProductAdvance(Iterated(matrix, cli_options), indices)
       IN  /\ yielded' = Append(yielded, variables)
           /\ output' = Append(output, RenderOne(variables))
           /\ cli_options' = RenderOne(variables).variables
           /\ indices' = adv.indices
           /\ exhausted' = adv.exhausted
    /\ UNCHANGED <<default_values, matrix, logdir, slurm_options, template,
                   template_path, no_timestamp, pc, script, rendered_options,
                   obj, previous, cli_vars>>

\* One iteration of `for variables in config.variables_iter(cli_options)`.
RenderYield ==
    /\ pc = "loop"
    /\ ~exhausted
    /\ LET variables == VariablesAt(default_values, matrix, cli_options, indices)
           adv == ProductAdvance(Iterated(matrix, cli_options), indices)
       IN  /\ yielded' = Append(yielded, variables)
           /\ output' = Append(output, RenderOne(variables))
           /\ indices' = adv.indices
           /\ exhausted' = adv.exhausted
    /\ UNCHANGED <<config_vars, pc, script, rendered_options, obj, previous, cli_vars>>

\* variables_iter is exhausted: the generator returns.
RenderStop ==
    /\ pc = "loop"
    /\ exhausted
    /\ pc' = "done"
    /\ UNCHANGED <<config_vars, script, indices, exhausted, yielded, output,
                   rendered_options, obj, previous, cli_vars>>

\* A direct call of render_options (tests/test_render.py:25).
RenderOptionsCall ==
    /\ pc = "options"
    /\ rendered_options' = render_options(slurm_options)
    /\ pc' = "options_done"
    /\ UNCHANGED <<config_vars, script, indices, exhausted, yielded, output, obj, previous, cli_vars>>

\* The Options field a composite is given to
CompositeField(value) ==
    CASE value.t = "Array" -> <<"array">>
      [] value.t = "CpuFreq" -> <<"cpu", "freq">>
      [] value.t = "Distribution" -> <<"distribution">>
      [] value.t = "Duration" -> <<"time">>

\* __post_init__ of a composite: ValueError, or the instance is constructed
PostInit(raises) ==
    /\ pc = "post_init"
    /\ pc' = IF raises THEN "raised" ELSE "constructed"
    /\ UNCHANGED <<config_vars, script, indices, exhausted, yielded, output,
                   rendered_options, obj, previous, cli_vars>>

ArrayPostInit == obj.t = "Array" /\ PostInit(ArrayRaises(obj))

CpuFreqPostInit == obj.t = "CpuFreq" /\ PostInit(CpuFreqRaises(obj))

DistributionPostInit == obj.t = "Distribution" /\ PostInit(DistributionRaises(obj))

DurationPostInit == obj.t = "Duration" /\ PostInit(DurationRaises(obj))

\* Config.__post_init__: ValueError, or the Config is ready for render
ConfigPostInit ==
    /\ pc = "post_init"
    /\ obj.t = "Config"
    /\ pc' = IF ConfigRaises(template, template_path) THEN "raised" ELSE "start"
    /\ UNCHANGED <<config_vars, script, indices, exhausted, yielded, output,
                   rendered_options, obj, previous, cli_vars>>

\* Options(<field>=<the constructed composite>), as from_toml(Options, ...)
\* builds it in tests/test_from_toml.py
OptionsOfComposite ==
    /\ pc = "constructed"
    /\ slurm_options' = <<[k |-> CompositeField(obj), v |-> obj]>>
    /\ pc' = "options"
    /\ UNCHANGED <<default_values, matrix, logdir, template, template_path,
                   cli_options, no_timestamp, script, indices, exhausted,
                   yielded, output, rendered_options, obj, previous, cli_vars>>

\* The caller calls render once more, with the same config and overrides
\* and either value of no_timestamp; what the finished call yielded is kept
\* for comparison.
RenderAgain ==
    /\ pc = "done"
    /\ previous = <<>>
    /\ previous' = <<[no_timestamp |-> no_timestamp, yielded |-> yielded,
                      output |-> output]>>
    /\ no_timestamp' \in BOOLEAN
    /\ pc' = "start"
    /\ script' = <<>>
    /\ indices' = <<>>
    /\ exhausted' = FALSE
    /\ yielded' = <<>>
    /\ output' = <<>>
    /\ rendered_options' = <<>>
    /\ UNCHANGED <<default_values, matrix, logdir, slurm_options, template,
                   template_path, cli_options, obj, cli_vars>>

(***************************************************************************)
(* The placeholder check of render (config.py:81-117, 146-147).            *)
(***************************************************************************)
\* jinja2.meta.find_undeclared_variables(env.parse(script))
find_undeclared_variables(source) ==
    {source[i].var : i \in {j \in DOMAIN source : IsVar(source[j])}}

\* _prompt(env, script, variables.keys()): the question it asks, if any.  A
\* question names one set of variables only: those of the template that are
\* not given, or else those given that the template does not have.
_prompt(source, given_variables) ==
    LET template_variables == find_undeclared_variables(source)
        diff_t_g == template_variables \ given_variables
        diff_g_t == given_variables \ template_variables
    IN  IF diff_t_g # {}
        THEN <<[e |-> "ask", q |-> "variables", not_given |-> diff_t_g,
                not_in_template |-> {}]>>
        ELSE IF diff_g_t # {}
        THEN <<[e |-> "ask", q |-> "variables", not_given |-> {},
                not_in_template |-> diff_g_t]>>
        ELSE <<>>

(***************************************************************************)
(* Saving and submitting (submit.py, cli.py).  A file of the log directory *)
(* is its name, a text of single characters.                               *)
(***************************************************************************)
BashSuffix == <<".", "b", "a", "s", "h">>

\* f"{script_name}.bash" and f"{script_name}--{n}.bash"
ScriptFile(script_name) == script_name \o BashSuffix

NumberedFile(script_name, n) ==
    script_name \o <<"-", "-">> \o IntToStr(n) \o BashSuffix

\* basedir.glob(f"{script_name}*.bash")
Glob(fs, script_name) ==
    {name \in DictKeys(fs) :
        /\ Len(name) >= Len(script_name) + Len(BashSuffix)
        /\ SubSeq(name, 1, Len(script_name)) = script_name
        /\ SubSeq(name, Len(name) - Len(BashSuffix) + 1, Len(name)) = BashSuffix}

\* name.find("--"): the 0-based position of the first "--", or -1
FindDashes(name) ==
    LET hits == {i \in 1..(Len(name) - 1) : name[i] = "-" /\ name[i + 1] = "-"}
    IN  IF hits = {} THEN -1
        ELSE (CHOOSE i \in hits : \A j \in hits : i <= j) - 1

\* int(text): the digits after an optional sign (white space and
\* underscores, which int() also takes, do not occur in these names);
\* anything else is a ValueError
IntDigits(text) ==
    IF text # <<>> /\ text[1] \in {"+", "-"} THEN Tail(text) ELSE text

IsIntText(text) ==
    /\ IntDigits(text) # <<>>
    /\ \A i \in DOMAIN IntDigits(text) : IntDigits(text)[i] \in Range(DigitChars)

RECURSIVE DigitsToNat(_)
DigitsToNat(digits) ==
    IF digits = <<>> THEN 0
    ELSE 10 * DigitsToNat(SubSeq(digits, 1, Len(digits) - 1))
         + (CHOOSE d \in 0..9 : DigitChars[d + 1] = digits[Len(digits)])

PyIntOf(text) ==
    IF text[1] = "-" THEN 0 - DigitsToNat(IntDigits(text))
    ELSE DigitsToNat(IntDigits(text))

\* _nth_script(basedir, script_name): the largest number, or a ValueError
\* of int(name[pos + 2:])
_nth_script(fs, script_name) ==
    LET tails == {SubSeq(name, FindDashes(name) + 3, Len(name)) :
                     name \in {n \in Glob(fs, script_name) : FindDashes(n) > 0}}
    IN  IF \E t \in tails : ~IsIntText(t)
        THEN [ok |-> FALSE]
        ELSE [ok |-> TRUE,
              v |-> CHOOSE m \in {0} \cup {PyIntOf(t) : t \in tails} :
                        \A t \in tails : PyIntOf(t) <= m]

\* _save_script(script, script_name, logdir, show_prompt, overwrite) on the
\* files fs, with the user's answers to the questions it may ask: what it
\* asked, how it ended, the path it chose and the files afterwards.
_save_script(text, script_name, show_prompt, overwrite_, fs, answers) ==
    LET script_path == ScriptFile(script_name)
        exists == HasKey(fs, script_path)
        branch == IF ~exists THEN "none"
                  ELSE IF overwrite_ /\ show_prompt THEN "overwrite"
                  ELSE IF show_prompt THEN "create"
                  ELSE "keep"
        nth == _nth_script(fs, script_name)
    IN  IF branch = "create" /\ ~nth.ok
        THEN [asked |-> <<>>, outcome |-> "ValueError", path |-> script_path,
              files |-> fs]
        ELSE
        LET path == IF branch = "create"
                    THEN NumberedFile(script_name, nth.v + 1)
                    ELSE script_path
            first == IF branch \in {"overwrite", "create"}
                     THEN <<[e |-> "ask", q |-> branch, path |-> path]>>
                     ELSE <<>>
            answer == IF first # <<>> THEN answers.first ELSE TRUE
            proceed == IF show_prompt
                       THEN <<[e |-> "ask", q |-> "proceed", path |-> path]>>
                       ELSE <<>>
        IN  IF ~answer
            THEN [asked |-> first, outcome |-> "exit", path |-> path, files |-> fs]
            ELSE IF show_prompt /\ ~answers.proceed
            THEN [asked |-> first \o proceed, outcome |-> "exit", path |-> path,
                  files |-> fs]
            ELSE [asked |-> first \o proceed, outcome |-> "written", path |-> path,
                  files |-> DictSet(fs, path, text)]

\* Return codes of sbatch
ReturnCodes == {0, 1, 2}

\* Most numbered copies a script has before cli starts
MaxCopies == 2

\* The job names of the configs cli is run on
CliJobNames ==
    <<Stem \o <<"-", "d", "e", "f", "a", "u", "l", "t">>,
      Stem \o <<"-", "b", "a", "r", "-", "1", "0">>,
      Stem \o <<"-", "b", "a", "r", "-", "x">>,
      Stem \o <<"-", "f", "o", "o", "-", "1", "-", "0">>>>

\* What a script file written by an earlier run holds
OldText == <<"old">>

\* The log directory before cli starts: for each job name, its script file
\* or not, and this many numbered copies
FilesWith(script_exists, copies) ==
    Flatten([n \in DOMAIN CliJobNames |->
        (IF script_exists
         THEN <<[k |-> ScriptFile(CliJobNames[n]), v |-> OldText]>>
         ELSE <<>>)
        \o [j \in 1..copies |->
               [k |-> NumberedFile(CliJobNames[n], j), v |-> OldText]]])

FilesInputs ==
    {FilesWith(script_exists, copies) :
        script_exists \in BOOLEAN, copies \in 0..MaxCopies}

CliMatrices ==
    {<<>>,
     <<[k |-> KBar, v |-> <<PyInt(10), PyStr(<<"x">>)>>]>>,
     <<[k |-> KFoo, v |-> <<PyStr(<<"1", ".", "0">>), PyStr(<<"1", "-", "0">>)>>]>>,
     <<[k |-> KBar, v |-> <<>>]>>}

CliDefaultValues == {<<>>, <<[k |-> KVar, v |-> PyInt(1)]>>}

CliTemplates ==
    {OStr(<<Lit("echo "), Var(KVar)>>), OStr(<<Lit("echo "), Var(KBar), NL>>)}

\* Variant that goes on to the next script whatever sbatch returned.
CliSubmitIgnoringCode ==
    /\ pc = "saved"
    /\ \E ret \in ReturnCodes :
          trace' = Append(trace, [e |-> "submit", i |-> Len(output),
                                  path |-> trace[Len(trace)].path, ret |-> ret])
    /\ pc' = "loop"
    /\ UNCHANGED <<config_vars, script, indices, exhausted, yielded, output,
                   rendered_options, obj, previous, yes, overwrite, files,
                   exit_code>>

\* cli.py:41-43: run_sbatch on the path save_script yielded; a non-zero
\* return code ends the process with that code.
CliSubmit ==
    /\ pc = "saved"
    /\ \E ret \in ReturnCodes :
          /\ trace' = Append(trace, [e |-> "submit", i |-> Len(output),
                                     path |-> trace[Len(trace)].path, ret |-> ret])
          /\ pc' = IF ret # 0 THEN "exited" ELSE "loop"
          /\ exit_code' = IF ret # 0 THEN OInt(ret) ELSE exit_code
    /\ UNCHANGED <<config_vars, script, indices, exhausted, yielded, output,
                   rendered_options, obj, previous, yes, overwrite, files>>

\* submit.py:86-92: save_script hands the pair render yielded to
\* _save_script(script, script_name, logdir, overwrite, show_prompt), whose
\* parameters are (script, script_name, logdir, show_prompt, overwrite).
CliSave ==
    /\ pc = "rendered"
    /\ \E answers \in [first : BOOLEAN, proceed : BOOLEAN] :
          LET one == output[Len(output)]
              show_prompt == ~yes
              saved == _save_script(one.script, one.job_name, overwrite,
                                    show_prompt, files, answers)
          IN  /\ trace' = trace \o saved.asked
                    \o (IF saved.outcome = "written"
                        THEN <<[e |-> "save", i |-> Len(output),
                                path |-> saved.path,
                                existed |-> HasKey(files, saved.path)]>>
                        ELSE <<>>)
              /\ files' = saved.files
              /\ pc' = IF saved.outcome = "written" THEN "saved" ELSE "exited"
              /\ exit_code' = CASE saved.outcome = "written" -> exit_code
                                [] saved.outcome = "exit" -> OInt(0)
                                [] OTHER -> [t |-> "ValueError"]
    /\ UNCHANGED <<config_vars, script, indices, exhausted, yielded, output,
                   rendered_options, obj, previous, yes, overwrite>>

\* One iteration of render's loop as cli runs it (show_prompt = not yes):
\* the placeholder check may ask, and exit(0) when the answer is no; else
\* the pair is yielded.
CliRender ==
    /\ pc = "loop"
    /\ ~exhausted
    /\ \E answer \in BOOLEAN :
          LET variables == VariablesAt(default_values, matrix, cli_options, indices)
              adv == ProductAdvance(Iterated(matrix, cli_options), indices)
              one == RenderOne(variables)
              show_prompt == ~yes
              asked == IF show_prompt
                       THEN _prompt(script, DictKeys(one.variables))
                       ELSE <<>>
              declined == asked # <<>> /\ ~answer
          IN  /\ yielded' = Append(yielded, variables)
              /\ trace' = trace \o asked
                    \o (IF declined THEN <<>>
                        ELSE <<[e |-> "render", i |-> Len(output) + 1]>>)
              /\ output' = IF declined THEN output ELSE Append(output, one)
              /\ indices' = IF declined THEN indices ELSE adv.indices
              /\ exhausted' = IF declined THEN exhausted ELSE adv.exhausted
              /\ pc' = IF declined THEN "exited" ELSE "rendered"
              /\ exit_code' = IF declined THEN OInt(0) ELSE exit_code
    /\ UNCHANGED <<config_vars, script, rendered_options, obj, previous, yes,
                   overwrite, files>>

\* render or render_options called directly: no command line, no files
NoCli ==
    /\ yes = FALSE
    /\ overwrite = FALSE
    /\ files = <<>>
    /\ trace = <<>>
    /\ exit_code = ONone

(***************************************************************************)
(* Specifications.                                                         *)
(***************************************************************************)
\* render(self_path, config, cli_options, no_timestamp=...) on every input
Init ==
    /\ default_values \in DefaultValuesInputs
    /\ matrix \in MatrixInputs
    /\ cli_options \in CliOptionsInputs
    /\ \E shape \in ConfigShapes :
          /\ logdir = shape.logdir
          /\ slurm_options = shape.slurm_options
          /\ template = shape.template
          /\ template_path = ONone
          /\ no_timestamp = shape.no_timestamp
    /\ pc = "start"
    /\ script = <<>>
    /\ indices = <<>>
    /\ exhausted = FALSE
    /\ yielded = <<>>
    /\ output = <<>>
    /\ rendered_options = <<>>
    /\ obj = ONone
    /\ previous = <<>>
    /\ NoCli

Next == RenderStart \/ RenderYield \/ RenderStop

Spec == Init /\ [][Next]_vars

\* render_options(options) on every sampled Options instance
InitOptions ==
    /\ default_values = <<>>
    /\ matrix = <<>>
    /\ cli_options = <<>>
    /\ logdir = [absolute |-> FALSE, parts |-> <<>>]
    /\ slurm_options \in OptionsInputs
    /\ template = OStr(<<>>)
    /\ template_path = ONone
    /\ no_timestamp = TRUE
    /\ pc = "options"
    /\ script = <<>>
    /\ indices = <<>>
    /\ exhausted = FALSE
    /\ yielded = <<>>
    /\ output = <<>>
    /\ rendered_options = <<>>
    /\ obj = ONone
    /\ previous = <<>>
    /\ NoCli

NextOptions == RenderOptionsCall

SpecOptions == InitOptions /\ [][NextOptions]_vars

\* Construction of a validating dataclass and what follows it: a composite
\* is given to Options and rendered, a Config is rendered
InitConstruct ==
    /\ default_values = <<>>
    /\ matrix = <<>>
    /\ logdir = [absolute |-> FALSE, parts |-> <<>>]
    /\ slurm_options = <<>>
    /\ \/ /\ obj \in CompositeInputs
          /\ template = ONone
          /\ template_path = ONone
          /\ cli_options = <<>>
          /\ no_timestamp = TRUE
       \/ /\ obj = [t |-> "Config"]
          /\ template \in TemplateInputs
          /\ template_path \in TemplatePathInputs
          /\ cli_options \in {<<>>, <<[k |-> KVar, v |-> PyStr(<<"Y", "a", "y">>)]>>}
          /\ no_timestamp \in BOOLEAN
    /\ pc = "post_init"
    /\ script = <<>>
    /\ indices = <<>>
    /\ exhausted = FALSE
    /\ yielded = <<>>
    /\ output = <<>>
    /\ rendered_options = <<>>
    /\ previous = <<>>
    /\ NoCli

NextConstruct ==
    \/ ArrayPostInit
    \/ CpuFreqPostInit
    \/ DistributionPostInit
    \/ DurationPostInit
    \/ ConfigPostInit
    \/ OptionsOfComposite
    \/ RenderOptionsCall
    \/ RenderStart
    \/ RenderYield
    \/ RenderStop

SpecConstruct == InitConstruct /\ [][NextConstruct]_vars

\* render called twice with the same config and overrides
InitTwice ==
    /\ default_values \in TwiceDefaultValues
    /\ matrix \in TwiceMatrices
    /\ cli_options \in TwiceCliOptions
    /\ \E shape \in TwiceShapes :
          /\ logdir = shape.logdir
          /\ slurm_options = shape.slurm_options
          /\ template = shape.template
    /\ template_path = ONone
    /\ no_timestamp \in BOOLEAN
    /\ pc = "start"
    /\ script = <<>>
    /\ indices = <<>>
    /\ exhausted = FALSE
    /\ yielded = <<>>
    /\ output = <<>>
    /\ rendered_options = <<>>
    /\ obj = ONone
    /\ previous = <<>>
    /\ NoCli

NextTwice == RenderStart \/ RenderYield \/ RenderStop \/ RenderAgain

SpecTwice == InitTwice /\ [][NextTwice]_vars

\* cli(config_path, dry_run, yes, overwrite) on a log directory that may
\* hold scripts of earlier runs
InitCli ==
    /\ default_values \in CliDefaultValues
    /\ matrix \in CliMatrices
    /\ cli_options = <<>>
    /\ logdir = [absolute |-> TRUE, parts |-> <<<<"tmp">>, <<"log">>>>]
    /\ slurm_options = <<>>
    /\ template \in CliTemplates
    /\ template_path = ONone
    /\ no_timestamp = FALSE
    /\ pc = "start"
    /\ script = <<>>
    /\ indices = <<>>
    /\ exhausted = FALSE
    /\ yielded = <<>>
    /\ output = <<>>
    /\ rendered_options = <<>>
    /\ obj = ONone
    /\ previous = <<>>
    /\ yes \in BOOLEAN
    /\ overwrite \in BOOLEAN
    /\ files \in FilesInputs
    /\ trace = <<>>
    /\ exit_code = ONone

NextCli == RenderStart \/ CliRender \/ CliSave \/ CliSubmit \/ RenderStop

SpecCli == InitCli /\ [][NextCli]_vars

(***************************************************************************)
(* Properties.  The helpers below state what is expected without using the *)
(* resolver's own definitions.                                             *)
(***************************************************************************)
\* The matrix entries whose key the overrides do not name, in matrix order
Unpinned == SelectSeq(matrix, LAMBDA e : \A i \in DOMAIN cli_options : cli_options[i].k # e.k)

\* Number of combinations of the candidate lists of entries j.. of u
RECURSIVE Combinations(_, _)
Combinations(u, j) ==
    IF j > Len(u) THEN 1 ELSE Len(u[j].v) * Combinations(u, j + 1)

\* The candidate of entry j of u in the n-th combination (n from 1), when the
\* first entry varies slowest
CandidateAt(u, n, j) ==
    u[j].v[(((n - 1) \div Combinations(u, j + 1)) % Len(u[j].v)) + 1]

\* C1: with empty overrides, variables_iter yields one set per element of the
\* Cartesian product of the candidate lists, the first declared key varying
\* slowest and each key's candidates in declared order, and render yields its
\* pairs in that same order.
C1_ProductOrder ==
    cli_options = <<>> =>
        /\ Len(yielded) <= Combinations(matrix, 1)
        /\ (pc = "done" => Len(yielded) = Combinations(matrix, 1))
        /\ \A n \in DOMAIN yielded : \A j \in DOMAIN matrix :
              DictGet(yielded[n], matrix[j].k) = CandidateAt(matrix, n, j)
        /\ Len(output) = Len(yielded)
        /\ \A n \in DOMAIN output : \A j \in DOMAIN matrix :
              /\ HasKey(output[n].overrides, matrix[j].k)
              /\ DictGet(output[n].overrides, matrix[j].k) = CandidateAt(matrix, n, j)

C1_Witness ==
    /\ pc = "done"
    /\ cli_options = <<>>
    /\ Len(matrix) = 2
    /\ Len(yielded) = 4
    /\ Len(output) = 4
    /\ matrix[1].v[1] # matrix[1].v[2]
    /\ matrix[2].v[1] # matrix[2].v[2]

\* C2: when the overrides name a matrix key, that key leaves the product: the
\* number of yielded sets is the product of the candidate-list lengths of
\* the keys the overrides do not name, and in every yielded set the pinned
\* key holds the override's value.
C2_PinnedKey ==
    (\E j \in DOMAIN matrix : HasKey(cli_options, matrix[j].k)) =>
        /\ Len(yielded) <= Combinations(Unpinned, 1)
        /\ (pc = "done" => Len(yielded) = Combinations(Unpinned, 1))
        /\ \A n \in DOMAIN yielded : \A j \in DOMAIN matrix :
              HasKey(cli_options, matrix[j].k) =>
                  DictGet(yielded[n], matrix[j].k) = DictGet(cli_options, matrix[j].k)

C2_Witness ==
    /\ pc = "done"
    /\ Len(matrix) = 2
    /\ HasKey(cli_options, matrix[1].k)
    /\ ~HasKey(cli_options, matrix[2].k)
    /\ Len(matrix[1].v) = 2
    /\ Len(matrix[2].v) = 2
    /\ Len(yielded) = 2
    /\ \A c \in DOMAIN matrix[1].v : matrix[1].v[c] # DictGet(cli_options, matrix[1].k)

\* The position of key k in the dict d
IndexOfKey(d, k) == CHOOSE i \in DOMAIN d : d[i].k = k

\* C3: every yielded set is defaults, then matrix combination, then
\* overrides: a key's value is the override's if the overrides have it,
\* else the candidate of this combination if it is a matrix key, else the
\* default; the keys are those of defaults, matrix and overrides.
C3_MergeOrder ==
    \A n \in DOMAIN yielded :
        /\ IsDict(yielded[n])
        /\ DictKeys(yielded[n]) =
              DictKeys(default_values) \cup DictKeys(matrix) \cup DictKeys(cli_options)
        /\ \A k \in DictKeys(yielded[n]) :
              DictGet(yielded[n], k) =
                  IF HasKey(cli_options, k) THEN DictGet(cli_options, k)
                  ELSE IF HasKey(matrix, k)
                       THEN CandidateAt(Unpinned, n, IndexOfKey(Unpinned, k))
                       ELSE DictGet(default_values, k)

C3_Witness ==
    /\ pc = "done"
    /\ Len(yielded) = 4
    /\ \E k \in DictKeys(default_values) \cap DictKeys(cli_options) :
          DictGet(default_values, k) # DictGet(cli_options, k)
    /\ \E k \in DictKeys(default_values) \cap DictKeys(matrix) : ~HasKey(cli_options, k)
    /\ \E k \in DictKeys(default_values) :
          ~HasKey(cli_options, k) /\ ~HasKey(matrix, k)

\* The positions of the item sep in text, with the position before the
\* first item and the one after the last
Cuts(text, sep) ==
    {0, Len(text) + 1} \cup {i \in DOMAIN text : text[i] = sep}

NthCut(cuts, n) == CHOOSE c \in cuts : Cardinality({d \in cuts : d < c}) = n - 1

\* text split at every occurrence of the item sep
SplitAt(text, sep) ==
    LET cuts == Cuts(text, sep)
    IN  [n \in 1..(Cardinality(cuts) - 1) |->
            SubSeq(text, NthCut(cuts, n) + 1, NthCut(cuts, n + 1) - 1)]

\* line is one of the lines of the rendered text (line holds no newline)
HasLine(text, line) ==
    \E i \in 0..(Len(text) - Len(line)) :
        /\ i = 0 \/ text[i] = "\n"
        /\ SubSeq(text, i + 1, i + Len(line)) = line
        /\ i + Len(line) = Len(text) \/ text[i + Len(line) + 1] = "\n"

JobNameDirective(name) == <<"#SBATCH ", "--", "job", "-", "name", "=">> \o name
ErrorDirective(logfile) == <<"#SBATCH ", "--", "error", "=">> \o logfile \o <<".err">>
OutputDirective(logfile) == <<"#SBATCH ", "--", "output", "=">> \o logfile \o <<".out">>

\* The text of the absolute log directory joined with a job name
LogfileOf(name) == PathPosix(PathAbsolute(logdir)) \o <<"/">> \o name

\* The job name, error and output directives of a script carry this name
CarriesName(text, name) ==
    /\ HasLine(text, JobNameDirective(name))
    /\ HasLine(text, ErrorDirective(LogfileOf(name)))
    /\ HasLine(text, OutputDirective(LogfileOf(name)))

\* C4: when the caller overrides a variable that has a default value and is
\* not a matrix key, the job is named <stem>-<key>-<override value>, and the
\* script's job-name, error and output directives carry that name.
C4_OverriddenDefaultNamesJob ==
    (/\ Len(cli_options) = 1
     /\ HasKey(default_values, cli_options[1].k)
     /\ ~HasKey(matrix, cli_options[1].k)
     /\ matrix = <<>>) =>
        \A n \in DOMAIN output :
            LET name == Stem \o <<"-">> \o cli_options[1].k \o <<"-">>
                        \o ToStr(cli_options[1].v)
            IN  /\ output[n].job_name = name
                /\ CarriesName(output[n].script, name)

\* The keys of a variable set that are matrix keys or absent from the defaults
ExpectedOverriddenKeys(variables) ==
    {k \in DictKeys(variables) :
        (\E j \in DOMAIN matrix : matrix[j].k = k)
        \/ (\A i \in DOMAIN default_values : default_values[i].k # k)}

\* Length of the suffix that the items of these keys give
RECURSIVE SuffixLength(_, _)
SuffixLength(variables, keys) ==
    IF variables = <<>> THEN 0
    ELSE (IF Head(variables).k \in keys
          THEN Len(Head(variables).k) + 1 + Len(ToStr(Head(variables).v)) + 1
          ELSE 0)
         + SuffixLength(Tail(variables), keys)

RECURSIVE PiecesJoined(_)
PiecesJoined(items) ==
    IF items = <<>> THEN <<>>
    ELSE Sanitize(Head(items).k \o <<"-">> \o ToStr(Head(items).v))
         \o (IF Tail(items) = <<>> THEN <<>> ELSE <<"-">> \o PiecesJoined(Tail(items)))

\* C6: the job name is <base>-<suffix>, base being the config file's stem;
\* the suffix is `default` when no key is overridden and otherwise the
\* pieces <key>-<value> of the overridden keys joined by "-".
C6_JobName ==
    \A n \in DOMAIN output :
        output[n].job_name =
            Stem \o <<"-">>
            \o (IF output[n].overrides = <<>>
                THEN <<"d", "e", "f", "a", "u", "l", "t">>
                ELSE PiecesJoined(output[n].overrides))

C6_Witness ==
    /\ pc = "done"
    /\ Len(output) = 1
    /\ Len(output[1].overrides) = 2
    /\ output[1].job_name =
          <<"m", "y", "j", "o", "b", "-", "k", "-", "x", "-", "1", "0", "-",
            "f", "o", "o", "-", "p", "-", "q">>

\* C7: within one render invocation, two different variable sets never
\* receive the same job name.
C7_JobNamesUnique ==
    \A i, j \in DOMAIN output :
        yielded[i] # yielded[j] => output[i].job_name # output[j].job_name

\* The texts <key>-<value> of these items, as given, joined by "-"
RECURSIVE RawJoined(_)
RawJoined(items) ==
    IF items = <<>> THEN <<>>
    ELSE Head(items).k \o <<"-">> \o ToStr(Head(items).v)
         \o (IF Tail(items) = <<>> THEN <<>> ELSE <<"-">> \o RawJoined(Tail(items)))

SuffixOf(name) == SubSeq(name, Len(Stem) + 2, Len(name))

\* C8: the job-name suffix holds only characters of [A-Za-z0-9|_-]: in each
\* piece every character outside the set, of the key as of the value, is
\* replaced by "-", every character inside it is kept, and the length is kept.
C8_SuffixCharacters ==
    \A n \in DOMAIN output :
        LET suffix == SuffixOf(output[n].job_name)
            raw == RawJoined(output[n].overrides)
        IN  /\ \A p \in DOMAIN suffix : suffix[p] \in AllowedChars
            /\ output[n].overrides # <<>> =>
                  /\ Len(suffix) = Len(raw)
                  /\ \A p \in DOMAIN raw :
                        suffix[p] = IF raw[p] \in AllowedChars THEN raw[p] ELSE "-"

C8_Witness ==
    \E n \in DOMAIN output :
        /\ \E i \in DOMAIN output[n].overrides :
              \E p \in DOMAIN output[n].overrides[i].k :
                  output[n].overrides[i].k[p] \notin AllowedChars
        /\ \E i \in DOMAIN output[n].overrides :
              \E p \in DOMAIN ToStr(output[n].overrides[i].v) :
                  ToStr(output[n].overrides[i].v)[p] \notin AllowedChars

\* C9: substitution uses SBT_JOB_NAME equal to the yielded job name and
\* SBT_LOGFILE_NAME equal to the absolute log directory joined with it, so
\* the default job-name, error and output directives read <job name>,
\* <logdir>/<job name>.err and <logdir>/<job name>.out; a variable of the
\* same name from defaults, matrix or overrides never replaces the two.
C9_SbtVariables ==
    \A n \in DOMAIN output :
        /\ DictGet(output[n].variables, SBT_JOB_NAME) = PyStr(output[n].job_name)
        /\ DictGet(output[n].variables, SBT_LOGFILE_NAME) =
              PyStr(LogfileOf(output[n].job_name))
        /\ CarriesName(output[n].script, output[n].job_name)

C9_Witness ==
    \E n \in DOMAIN output :
        /\ slurm_options = <<>>
        /\ HasKey(yielded[n], SBT_JOB_NAME)
        /\ HasKey(yielded[n], SBT_LOGFILE_NAME)
        /\ DictGet(yielded[n], SBT_JOB_NAME) # PyStr(output[n].job_name)

\* The fields whose value is not empty, in declaration order
NonEmptyFields ==
    SelectSeq([i \in 1..Len(Fields) |-> i],
              LAMBDA i : ~is_empty(OptionValue(slurm_options, i)))

\* line is a directive line of field i: `#SBATCH --<key>` and then no more
\* of a key
IsLineOfField(line, i) ==
    LET prefix == <<Lit("#SBATCH ")>> \o _render_key(Fields[i].name)
    IN  /\ Len(line) >= Len(prefix)
        /\ SubSeq(line, 1, Len(prefix)) = prefix
        /\ Len(line) > Len(prefix) => line[Len(prefix) + 1] # Lit("-")

HasLineOfField(i) ==
    LET start == <<NL, Lit("#SBATCH ")>> \o _render_key(Fields[i].name)
    IN  \E p \in 1..(Len(rendered_options) - Len(start)) :
            /\ SubSeq(rendered_options, p, p + Len(start) - 1) = start
            /\ rendered_options[p + Len(start)] # Lit("-")

\* A value that is None (or unset), an empty collection, an empty string or
\* the boolean false
NoneEmptyOrFalse(value) ==
    \/ value.t = "None"
    \/ (value.t = "bool" /\ value.v = FALSE)
    \/ (value.t \in {"str", "list", "tuple"} /\ value.v = <<>>)

\* C11: render_options omits a field exactly when its value is None/unset,
\* an empty collection (or empty string) or boolean false; every other value,
\* the integer 0 of an integer field such as nice included, produces a
\* directive line.
C11_OmittedExactlyWhenEmpty ==
    pc = "options_done" =>
        \A i \in DOMAIN Fields :
            HasLineOfField(i) <=> ~NoneEmptyOrFalse(OptionValue(slurm_options, i))

\* The block has the line `#SBATCH --<key>` of field i with nothing after
\* the key
HasBareLineOfField(i) ==
    LET line == <<NL, Lit("#SBATCH ")>> \o _render_key(Fields[i].name) \o <<NL>>
    IN  \E p \in 1..(Len(rendered_options) - Len(line) + 1) :
            SubSeq(rendered_options, p, p + Len(line) - 1) = line

\* C12: for every boolean field of Options, the value true renders exactly
\* the bare line `#SBATCH --<kebab-key>` with no value suffix, and the value
\* false renders no line.
C12_BooleanBareLine ==
    pc = "options_done" =>
        \A i \in DOMAIN Fields :
            LET value == OptionValue(slurm_options, i)
            IN  value.t = "bool" =>
                    IF value.v THEN HasBareLineOfField(i) ELSE ~HasLineOfField(i)

\* The construction of obj is over and raised ValueError / gave an instance
Rejected == pc = "raised"

Constructed == pc \notin {"post_init", "raised"}

\* Nothing was rendered and nothing more happens
NothingProduced ==
    /\ slurm_options = <<>>
    /\ rendered_options = <<>>
    /\ output = <<>>
    /\ ~ENABLED NextConstruct

\* C13: constructing a CpuFreq with p3 set while p2 is unset, or a
\* Distribution with third set while second is unset, fails with a
\* validation error at construction, so that no directive block is produced;
\* every other combination of present and absent tail fields constructs.
C13_TailNeedsPredecessor ==
    /\ (obj.t = "CpuFreq" /\ pc # "post_init") =>
            IF obj.p3 # ONone /\ obj.p2 = ONone
            THEN Rejected /\ NothingProduced
            ELSE Constructed
    /\ (obj.t = "Distribution" /\ pc # "post_init") =>
            IF obj.third # ONone /\ obj.second = ONone
            THEN Rejected /\ NothingProduced
            ELSE Constructed

C13_Witness ==
    /\ Rejected
    /\ obj.t = "Distribution"
    /\ obj.third # ONone
    /\ obj.second = ONone

\* C14: constructing an Array succeeds exactly when one of values and range
\* is non-empty and the other is empty and, when range is the one given, its
\* length is 2 or 3; every other combination fails with a validation error
\* at construction.
C14_ArrayConstruction ==
    (obj.t = "Array" /\ pc # "post_init") =>
        LET given_values == obj.values # <<>>
            given_range == obj.range_ # <<>>
            accepted == \/ (given_values /\ ~given_range)
                        \/ (given_range /\ ~given_values
                            /\ Len(obj.range_) \in {2, 3})
        IN  IF accepted THEN Constructed ELSE Rejected

C14_Witness ==
    /\ Rejected
    /\ obj.t = "Array"
    /\ obj.values = <<>>
    /\ Len(obj.range_) > 3

\* C15: constructing a Duration fails with a validation error exactly when
\* days, hours and minutes are all zero; the failure happens at construction,
\* before any rendering, and every Duration with a non-zero component
\* constructs.
C15_ZeroDuration ==
    (obj.t = "Duration" /\ pc # "post_init") =>
        IF <<obj.days, obj.hours, obj.minutes>> = <<0, 0, 0>>
        THEN Rejected /\ NothingProduced
        ELSE Constructed

C15_Witness ==
    /\ Rejected
    /\ obj = ODuration(0, 0, 0)

\* The block render_options returned has the line `#SBATCH --time=<text>`
HasTimeLine(text) ==
    LET line == <<NL, Lit("#SBATCH "), Lit("--"), Lit("time"), Lit("=")>>
                \o Lits(text) \o <<NL>>
    IN  \E p \in 1..(Len(rendered_options) - Len(line) + 1) :
            SubSeq(rendered_options, p, p + Len(line) - 1) = line

\* <days>-<hours>:<minutes> and <hours>:<minutes>, each number as str() has it
DayPrefixedForm(duration) ==
    IntToStr(duration.days) \o <<"-">> \o IntToStr(duration.hours) \o <<":">>
    \o IntToStr(duration.minutes)

NoDaysForm(duration) ==
    IntToStr(duration.hours) \o <<":">> \o IntToStr(duration.minutes)

\* A Duration was constructed, given to Options(time=...) and rendered
DurationRendered == pc = "options_done" /\ obj.t = "Duration"

TwoDigits(n) == IF n < 10 THEN <<"0">> \o NatToStr(n) ELSE NatToStr(n)

\* C17: render_options writes a Duration in the zero-padded clock form with a
\* seconds field, [D-]HH:MM:00: Duration(days=1) gives the line
\* `#SBATCH --time=1-00:00:00` and a Duration of 12 hours `#SBATCH --time=12:00:00`.
C17_PaddedClockForm ==
    (DurationRendered /\ obj.days >= 0) =>
        HasTimeLine((IF obj.days > 0 THEN IntToStr(obj.days) \o <<"-">> ELSE <<>>)
                    \o TwoDigits(obj.hours) \o <<":">> \o TwoDigits(obj.minutes)
                    \o <<":", "0", "0">>)

\* script ends with text
EndsWith(text) ==
    /\ Len(script) >= Len(text)
    /\ SubSeq(script, Len(script) - Len(text) + 1, Len(script)) = text

\* C18: a Config can be constructed exactly when one of template and
\* template_path is given and the other is not; giving neither or both fails
\* with a validation error, so every Config that reaches render has exactly
\* one template source, and the script is built from that one.
C18_OneTemplateSource ==
    (obj.t = "Config" /\ pc # "post_init") =>
        LET inline == template # ONone
            from_file == template_path # ONone
        IN  IF inline # from_file
            THEN /\ pc \in {"start", "loop", "done", "os_error"}
                 /\ (pc \in {"loop", "done"} /\ inline) => EndsWith(template.v)
                 /\ (pc \in {"loop", "done"} /\ from_file) =>
                        \E text \in TemplateFileTexts : EndsWith(text)
                 /\ pc = "os_error" => from_file
            ELSE Rejected /\ NothingProduced

C18_Witness ==
    /\ obj.t = "Config"
    /\ pc = "done"
    /\ template = ONone
    /\ template_path # ONone
    /\ Len(output) = 1

\* Two finished calls of render on the same config and overrides
CalledTwice == pc = "done" /\ previous # <<>>

\* The (script, job name) pairs of a call's output
Pairs(out) == [n \in DOMAIN out |-> <<out[n].script, out[n].job_name>>]

\* with is without plus one line `# timestamp: <now>` right before the
\* rendered template body
OneTimestampLineInserted(with, without, body) ==
    LET p == Len(without) - Len(body)
    IN  /\ p >= 1
        /\ without[p] = "\n"
        /\ SubSeq(without, p + 1, Len(without)) = body
        /\ Len(with) = Len(without) + 3
        /\ SubSeq(with, 1, p) = SubSeq(without, 1, p)
        /\ with[p + 1] = "# timestamp: "
        /\ with[p + 2] \in Timestamps
        /\ with[p + 3] = "\n"
        /\ SubSeq(with, p + 4, Len(with)) = body

\* C19: enabling the timestamp changes nothing but one inserted comment
\* line: for the same config and overrides, render with the timestamp yields
\* the same number of pairs and the same job names as without it, and each
\* script differs from its timestamp-free counterpart only by a single line
\* `# timestamp: ...` placed immediately before the template body.
C19_TimestampOnlyAddsALine ==
    (CalledTwice /\ previous[1].no_timestamp # no_timestamp) =>
        LET with == IF no_timestamp THEN previous[1].output ELSE output
            without == IF no_timestamp THEN output ELSE previous[1].output
        IN  /\ Len(with) = Len(without)
            /\ \A n \in DOMAIN with :
                  /\ with[n].job_name = without[n].job_name
                  /\ OneTimestampLineInserted(
                         with[n].script, without[n].script,
                         JinjaRender(template.v, without[n].variables))

Events(kind) == {n \in DOMAIN trace : trace[n].e = kind}

Steps == Events("render") \cup Events("save") \cup Events("submit")

\* render, save, submit of set 1, then of set 2, ... numbered 3, 4, 5, 6, ...
StepNo(n) ==
    3 * trace[n].i + (CASE trace[n].e = "render" -> 0
                        [] trace[n].e = "save" -> 1
                        [] OTHER -> 2)

RECURSIVE ProductSize(_)
ProductSize(d) == IF d = <<>> THEN 1 ELSE Len(Head(d).v) * ProductSize(Tail(d))

\* How many variable sets the resolver holds for the config cli runs on
NumSets == ProductSize(Iterated(matrix, cli_options))

Ended == pc \in {"done", "exited"}

AllSubmissionsZero == \A n \in Events("submit") : trace[n].ret = 0

EverySetSubmittedOnce ==
    \A i \in 1..NumSets :
        Cardinality({n \in Events("submit") : trace[n].i = i}) = 1

\* Set i is rendered, saved and submitted, in this order and each once,
\* before set i+1 is rendered.
OneSetAtATime ==
    /\ \A a, b \in Steps : a < b => StepNo(a) < StepNo(b)
    /\ \A b \in Steps :
          StepNo(b) > 3 => \E a \in Steps : a < b /\ StepNo(a) = StepNo(b) - 1

\* A non-zero return code is the last thing that happens, and is the exit code.
NonZeroCodeEnds ==
    \A n \in Events("submit") :
        trace[n].ret # 0 =>
            /\ n = Len(trace)
            /\ pc = "exited"
            /\ exit_code = OInt(trace[n].ret)

\* C21 as stated: variable sets are handled one at a time in resolver order,
\* the first non-zero return code ends the process with that code and nothing
\* is saved or submitted after it, and when every submission returned 0 the
\* script of every variable set has been submitted exactly once.
C21_EverySetSubmitted ==
    /\ OneSetAtATime
    /\ NonZeroCodeEnds
    /\ (Ended /\ AllSubmissionsZero) => EverySetSubmittedOnce

\* C21 amended: as above, but every set is submitted exactly once only when
\* the loop ran to the end of the resolver's sequence; a question answered
\* with no, or an error raised while saving, ends the process earlier with
\* the remaining sets neither saved nor submitted.
C21_EverySetSubmittedUnlessEndedEarly ==
    /\ OneSetAtATime
    /\ NonZeroCodeEnds
    /\ pc = "done" => AllSubmissionsZero /\ EverySetSubmittedOnce
    /\ (pc = "exited" /\ AllSubmissionsZero) =>
          /\ exit_code \in {OInt(0), [t |-> "ValueError"]}
          /\ \A i \in 1..NumSets :
                Cardinality({n \in Events("submit") : trace[n].i = i}) <= 1

\* Two sets, the first submitted with code 0 and the second with code 2.
C21_Witness ==
    /\ pc = "exited"
    /\ exit_code = OInt(2)
    /\ Cardinality(Events("submit")) = 2
    /\ Cardinality(Events("save")) = 2

\* Two sets, both submitted with code 0, and the loop ended.
C21_WitnessAllZero ==
    /\ pc = "done"
    /\ NumSets = 2
    /\ Cardinality(Events("submit")) = 2

\* C22: run with -y/--yes, cli asks no question at any step, whatever
\* --overwrite is and whichever script files already exist.
C22_YesAsksNothing == yes => Events("ask") = {}

\* The placeholder check has just run: the set was yielded, or the answer
\* to its question was no.
CheckedJustNow ==
    /\ ~yes
    /\ \/ pc = "rendered"
       \/ /\ pc = "exited"
          /\ trace # <<>>
          /\ trace[Len(trace)].e = "ask"
          /\ trace[Len(trace)].q = "variables"

\* The question of the check that has just run, if it asked one
LastQuestion ==
    LET n == IF pc = "rendered" THEN Len(trace) - 1 ELSE Len(trace)
    IN  IF n >= 1 /\ trace[n].e = "ask" /\ trace[n].q = "variables"
        THEN <<trace[n]>>
        ELSE <<>>

TemplateNames == find_undeclared_variables(script)

GivenNames == DictKeys(RenderOne(yielded[Len(yielded)]).variables)

\* C23: when the template has placeholders that are not given and variables
\* are given that the template does not have, the question reports both sets
\* of names; when the two sets of names are equal nothing is asked and the
\* check returns true.
C23_BothMismatchesReported ==
    CheckedJustNow =>
        /\ TemplateNames = GivenNames =>
              LastQuestion = <<>> /\ pc = "rendered"
        /\ (TemplateNames \ GivenNames # {} /\ GivenNames \ TemplateNames # {}) =>
              /\ LastQuestion # <<>>
              /\ LastQuestion[1].not_given = TemplateNames \ GivenNames
              /\ LastQuestion[1].not_in_template = GivenNames \ TemplateNames

\* C27: without --overwrite, a save never replaces the content of a script
\* file that already existed: the path written is one no file had.
C27_NoSilentOverwrite ==
    ~overwrite => \A n \in Events("save") : ~trace[n].existed

\* C29: when the numbered copy is created, its path is <job name>--<n+1>.bash
\* with n the largest number among the existing numbered copies (0 without
\* any); the step ends without an error however many copies exist, and the
\* path it chooses is not the path of an existing file.
C29_NumberedCopy ==
    /\ exit_code # [t |-> "ValueError"]
    /\ \A n \in Events("ask") :
          trace[n].q = "create" =>
              \E job \in DOMAIN CliJobNames, c \in 0..MaxCopies :
                  /\ trace[n].path = NumberedFile(CliJobNames[job], c + 1)
                  /\ c > 0 => HasKey(files, NumberedFile(CliJobNames[job], c))
                  /\ \A d \in (c + 2)..(MaxCopies + 1) :
                        ~HasKey(files, NumberedFile(CliJobNames[job], d))
                  /\ \A m \in Events("save") :
                        trace[m].path = trace[n].path => ~trace[m].existed
                  /\ (\A m \in Events("save") : trace[m].path # trace[n].path)
                        => ~HasKey(files, trace[n].path)

\* ---------------------------------------------------------------------------
\* Shape of the directive lines and of the script around them

\* The line that starts after the line break at position p of the block is
\* `#SBATCH --<key>` of some field, and the key is followed by the end of the
\* line or by `=`.
WellFormedLineAfter(p) ==
    \E i \in DOMAIN Fields :
        LET start == <<Lit("#SBATCH ")>> \o _render_key(Fields[i].name)
            next == p + Len(start) + 1
        IN  /\ next <= Len(rendered_options)
            /\ SubSeq(rendered_options, p + 1, next - 1) = start
            /\ rendered_options[next] \in {NL, Lit("=")}

\* C24: every directive line render_options produces is `#SBATCH --<key>`,
\* the key being the field name with hyphens for underscores, followed by
\* nothing or by `=` and the value text; no field's value is glued to the key
\* without `=`.
C24_KeyThenEqualsValue ==
    pc = "options_done" =>
        \A p \in 1..(Len(rendered_options) - 1) :
            rendered_options[p] = NL => WellFormedLineAfter(p)

\* The block has the line `#SBATCH --cpu-freq=<text>`
HasCpuFreqLine(text) ==
    LET line == <<NL, Lit("#SBATCH ")>> \o _render_key(<<"cpu", "freq">>)
                \o <<Lit("=")>> \o text \o <<NL>>
    IN  \E p \in 1..(Len(rendered_options) - Len(line) + 1) :
            SubSeq(rendered_options, p, p + Len(line) - 1) = line

\* p1, then -<p2> when p2 is not None, then :<p3> when p3 is not None
CpuFreqForm(cpu_freq) ==
    OScalarStr(cpu_freq.p1)
    \o (IF cpu_freq.p2 # ONone THEN <<Lit("-")>> \o OScalarStr(cpu_freq.p2) ELSE <<>>)
    \o (IF cpu_freq.p3 # ONone THEN <<Lit(":")>> \o OScalarStr(cpu_freq.p3) ELSE <<>>)

\* A CpuFreq was constructed, given to Options(cpu_freq=...) and rendered
CpuFreqRendered == pc = "options_done" /\ obj.t = "CpuFreq"

\* C25: a constructed CpuFreq renders as p1, then -<p2> exactly when p2 is
\* not None (p2 an integer or a literal), then :<p3> when p3 is set, so that
\* a :<p3> part always has the -<p2> part before it.
C25_CpuFreqParts == CpuFreqRendered => HasCpuFreqLine(CpuFreqForm(obj))

\* In the script text s the shebang is the first line, every directive and
\* the timestamp comment start a line, and the template body of the script
\* starts a line.
ShebangOnItsOwnLine(s, body) ==
    /\ s[1] = Shebang[1].lit
    /\ Len(s) > 1 => s[2] = "\n"
    /\ \A p \in 2..Len(s) :
          s[p] \in {"#SBATCH ", "# timestamp: "} => s[p - 1] = "\n"
    /\ (body # <<>> /\ Len(s) > Len(body)) => s[Len(s) - Len(body)] = "\n"

\* C26: in every script render yields the shebang is a line of its own: the
\* directive block, the timestamp comment or the template body that follows
\* it starts on a new line, also for an Options instance whose fields are
\* all empty; a directive block is separated by a line break from the
\* shebang and from the text after it.
C26_ShebangOwnLine ==
    \A n \in DOMAIN output :
        ShebangOnItsOwnLine(output[n].script,
                            JinjaRender(template.v, output[n].variables))

\* ---------------------------------------------------------------------------
\* How many variable sets a call yields

\* A matrix key that the overrides do not pin has no candidate
UnpinnedKeyWithoutCandidates ==
    \E i \in DOMAIN matrix :
        ~HasKey(cli_options, matrix[i].k) /\ matrix[i].v = <<>>

\* C28 as stated: variables_iter yields at least one variable set for every
\* config and every overrides mapping, a matrix with an unpinned key whose
\* candidate list is empty included, so a call of render produces at least
\* one script.
C28_AtLeastOneSet ==
    pc = "done" => Len(yielded) >= 1 /\ Len(output) >= 1

\* C28 amended: variables_iter yields as many variable sets as the Cartesian
\* product of the candidate lists of the unpinned keys has elements, and
\* render one script for each: at least one, except when an unpinned key has
\* an empty candidate list, and then none.
C28_AsManySetsAsTheProduct ==
    pc = "done" =>
        /\ Len(yielded) = NumSets
        /\ Len(output) = Len(yielded)
        /\ Len(yielded) = 0 <=> UnpinnedKeyWithoutCandidates

\* A call that ended without a script, for a key without candidates
C28_Witness ==
    /\ pc = "done"
    /\ UnpinnedKeyWithoutCandidates
    /\ output = <<>>

====
